---- MODULE Spec2Model ----
(***************************************************************************)
(* Personal Library Manager (src/main.py): a Streamlit script over one     *)
(* PostgreSQL table `books`.  Every user interaction re-executes the whole *)
(* script top to bottom: CREATE TABLE IF NOT EXISTS, the Add Book tab, the *)
(* View Library tab (SELECT, then the Remove buttons), the Search tab and  *)
(* the Library Statistics tab (two COUNTs and the JSON export).  One       *)
(* action of this module is one such script run; at most one button is     *)
(* pressed in a run.                                                       *)
(*                                                                         *)
(* Text (title, author, search query) is a sequence of one-character       *)
(* strings, so that ILIKE patterns and JSON escaping work on characters.   *)
(* The table is kept in physical (heap) order: SELECT without ORDER BY     *)
(* returns the live rows in that order, DELETE leaves a free slot, and an  *)
(* INSERT lands either at the end or in a free slot.                       *)
(***************************************************************************)
EXTENDS Integers, Sequences, FiniteSets, TLC

\* ---------------------------------------------------------------- bounds
\* Largest id the SERIAL sequence hands out in the model.
MaxId == 2

\* ------------------------------------------------------ program constants
\* st.number_input("Publication Year", min_value=1000, max_value=2100, ...)
min_value == 1000
max_value == 2100
\* value=date.today().year: the default of the year widget.
TodayYear == 2026

\* ------------------------------------------------------------ input sets
\* What the user has in the Add Book form when a run starts.  typed is the
\* number the user entered in the year field.
FormInputs ==
    { [title |-> <<>>,            author |-> <<"c">>,       typed |-> TodayYear,
       genre |-> "Fiction", status |-> "Not Read"],
      [title |-> <<"A", "b">>,    author |-> <<>>,          typed |-> TodayYear,
       genre |-> "Fiction", status |-> "Not Read"],
      [title |-> <<" ">>,         author |-> <<"c">>,       typed |-> TodayYear,
       genre |-> "Fiction", status |-> "Not Read"],
      [title |-> <<"A", "b">>,    author |-> <<"\"", "c">>, typed |-> 1000,
       genre |-> "Fiction", status |-> "Finished"],
      [title |-> <<"b", "\\">>,   author |-> <<"C">>,       typed |-> 2100,
       genre |-> "Other",   status |-> "Not Read"],
      [title |-> <<"A", "b">>,    author |-> <<"\"", "c">>, typed |-> 999,
       genre |-> "Fiction", status |-> "Finished"],
      [title |-> <<"b", "\\">>,   author |-> <<"C">>,       typed |-> 2101,
       genre |-> "Other",   status |-> "Currently Reading"] }

\* What the user has in the search box.
Queries == { <<>>, <<"_">>, <<"C">>, <<"b", "\\">> }

\* Years the year widget can hold when the typed number was not accepted.
YearSamples == { min_value, TodayYear, max_value }

\* ------------------------------------------------------------ the table
\* A free slot of the heap.
Hole == [id |-> 0, title |-> <<>>, author |-> <<>>, year |-> 0,
         genre |-> "", status |-> ""]

Row(id, t, a, y, g, s) ==
    [id |-> id, title |-> t, author |-> a, year |-> y, genre |-> g, status |-> s]

Ids(rows) == { rows[i].id : i \in 1..Len(rows) } \ {0}

IsLive(r) == r.id # 0

\* SELECT * FROM books
SelectAll(heap) == SelectSeq(heap, IsLive)

\* CREATE TABLE IF NOT EXISTS books (...); db = [exists, heap, seq]
CreateTableResetting(db) == [exists |-> TRUE, heap |-> <<>>, seq |-> 1]

CreateTableIfNotExists(db) ==
    IF db.exists THEN db ELSE [exists |-> TRUE, heap |-> <<>>, seq |-> 1]

\* id SERIAL PRIMARY KEY: the id of the next inserted row.
SerialMaxPlusOne(heap, seq) ==
    IF Ids(heap) = {} THEN 1
    ELSE (CHOOSE m \in Ids(heap) : \A k \in Ids(heap) : k <= m) + 1

SerialNextVal(heap, seq) == seq

\* INSERT INTO books (...) VALUES (...): the heaps the insert can leave.
InsertOverLast(heap, row) ==
    IF heap = <<>> THEN { <<row>> } ELSE { [heap EXCEPT ![Len(heap)] = row] }

Insert(heap, row) ==
    { Append(heap, row) } \cup
    { [heap EXCEPT ![i] = row] : i \in { j \in 1..Len(heap) : heap[j].id = 0 } }

\* DELETE FROM books WHERE id = %s
DeleteSameTitle(heap, id) ==
    LET hit == { i \in 1..Len(heap) : heap[i].id = id }
        ts  == { heap[i].title : i \in hit }
    IN  [i \in 1..Len(heap) |->
            IF heap[i].id # 0 /\ heap[i].title \in ts THEN Hole ELSE heap[i]]

Delete(heap, id) ==
    [i \in 1..Len(heap) |-> IF heap[i].id = id THEN Hole ELSE heap[i]]

\* ------------------------------------------------------------ the widgets
\* `if title and author`: Python truthiness of two strings.
TitleAndAuthor(t, a) == t # <<>> /\ a # <<>>

\* number_input(min_value, max_value): the values the widget can return
\* when the user typed `typed`.
number_input_unchecked(typed) == { typed }

number_input(typed) ==
    IF typed >= min_value /\ typed <= max_value
    THEN { typed }
    ELSE { y \in YearSamples : y >= min_value /\ y <= max_value }

\* ------------------------------------------------------------ ILIKE
Lower(c) == IF c = "A" THEN "a" ELSE IF c = "B" THEN "b" ELSE IF c = "C" THEN "c" ELSE c

RECURSIVE LikeMatch(_, _)
\* text LIKE pattern on case-folded characters: % any run, _ any one
\* character, backslash makes the next pattern character literal.
LikeMatch(t, p) ==
    IF p = <<>> THEN t = <<>>
    ELSE IF Head(p) = "%"
         THEN LikeMatch(t, Tail(p)) \/ (t # <<>> /\ LikeMatch(Tail(t), p))
    ELSE IF Head(p) = "_"
         THEN t # <<>> /\ LikeMatch(Tail(t), Tail(p))
    ELSE IF Head(p) = "\\"
         THEN /\ Len(p) >= 2
              /\ t # <<>>
              /\ Lower(Head(t)) = Lower(p[2])
              /\ LikeMatch(Tail(t), Tail(Tail(p)))
    ELSE /\ t # <<>>
         /\ Lower(Head(t)) = Lower(Head(p))
         /\ LikeMatch(Tail(t), Tail(p))

\* f"%{search_query}%"
Pattern(q) == <<"%">> \o q \o <<"%">>

ILike(t, p) == LikeMatch(t, p)

\* SELECT * FROM books WHERE title ILIKE %s OR author ILIKE %s
SelectILike(heap, q) ==
    LET Hit(r) == r.id # 0 /\ (ILike(r.title, Pattern(q)) \/ ILike(r.author, Pattern(q)))
    IN  SelectSeq(heap, Hit)

\* ------------------------------------------------------------ statistics
\* SELECT COUNT(*) FROM books
CountAll(heap) == Len(SelectAll(heap))

\* SELECT COUNT(*) FROM books WHERE status = 'Finished'
IsFinished(r) == r.id # 0 /\ r.status = "Finished"

CountFinished(heap) == Len(SelectSeq(heap, IsFinished))

\* np.round((read_books / total_books) * 100, 2), in hundredths of a percent
\* (round half to even).
Percentage(read, total) ==
    IF total > 0
    THEN LET n == read * 10000
             q == n \div total
             r == n % total
         IN  IF 2 * r > total \/ (2 * r = total /\ q % 2 = 1) THEN q + 1 ELSE q
    ELSE 0

\* ------------------------------------------------------------ JSON
RECURSIVE EscapeQuoteOnly(_)
\* An escape that forgets the backslash itself.
EscapeQuoteOnly(s) ==
    IF s = <<>> THEN <<>>
    ELSE IF Head(s) = "\""
         THEN <<"\\", Head(s)>> \o EscapeQuoteOnly(Tail(s))
         ELSE <<Head(s)>> \o EscapeQuoteOnly(Tail(s))

RECURSIVE Escape(_)
\* json.dumps string body: " and \ get a backslash in front.
Escape(s) ==
    IF s = <<>> THEN <<>>
    ELSE IF Head(s) = "\"" \/ Head(s) = "\\"
         THEN <<"\\", Head(s)>> \o Escape(Tail(s))
         ELSE <<Head(s)>> \o Escape(Tail(s))

\* A JSON string literal: the escaped body between two quotes.
DumpString(s) == <<"\"">> \o Escape(s) \o <<"\"">>

Str(chars) == [kind |-> "str", num |-> 0, chars |-> chars]
Num(n) == [kind |-> "num", num |-> n, chars |-> <<>>]

\* What the export section offers: a document, or nothing to download.
Offer(doc) == [offered |-> TRUE, doc |-> doc]
NoDoc == [offered |-> FALSE, doc |-> <<>>]

\* json.dumps(books, indent=4): one array per row, one token per column.
\* genre and status are letters, spaces and hyphens only: one unit each.
DumpRow(r) ==
    << Num(r.id), Str(DumpString(r.title)), Str(DumpString(r.author)),
       Num(r.year), Str(DumpString(<<r.genre>>)), Str(DumpString(<<r.status>>)) >>

json_dumps(rows) == [i \in 1..Len(rows) |-> DumpRow(rows[i])]

ParseError == <<"parse error">>

RECURSIVE Unescape(_)
\* The body of a string literal up to its closing quote; ParseError if the
\* literal is not closed exactly at the end.
Unescape(s) ==
    IF s = <<>> THEN ParseError
    ELSE IF Head(s) = "\"" THEN (IF Tail(s) = <<>> THEN <<>> ELSE ParseError)
    ELSE IF Head(s) = "\\"
         THEN IF Len(s) < 2 THEN ParseError
              ELSE LET rest == Unescape(Tail(Tail(s)))
                   IN  IF rest = ParseError THEN ParseError ELSE <<s[2]>> \o rest
    ELSE LET rest == Unescape(Tail(s))
         IN  IF rest = ParseError THEN ParseError ELSE <<Head(s)>> \o rest

LoadToken(tok) ==
    IF tok.kind = "num" THEN tok.num
    ELSE IF tok.chars = <<>> \/ Head(tok.chars) # "\"" THEN ParseError
    ELSE Unescape(Tail(tok.chars))

\* json.loads: a list of lists.
json_loads(doc) == [i \in 1..Len(doc) |-> [j \in 1..Len(doc[i]) |-> LoadToken(doc[i][j])]]

\* ------------------------------------------------------------ the state
VARIABLES
    tableExists,      \* the books table has been created
    table,            \* the heap of the books table
    books_id_seq,     \* next value of the SERIAL sequence
    pressed,          \* the button that started the last run
    form,             \* Add Book widgets as the user left them
    publication_year, \* value returned by the year widget
    search_query,     \* the search box
    addMsg,           \* Add Book tab: "none", "success", "error"
    books,            \* View Library tab: the fetched rows
    removeMsg,        \* View Library tab: "none", "success"
    results,          \* Search tab: the fetched rows
    searchMsg,        \* Search tab: "none", "results", "warning", "error"
    total_books,      \* statistics
    read_books,
    read_percentage,
    library_json,     \* the export on offer
    removed           \* ids whose DELETE removed a row

vars == << tableExists, table, books_id_seq, pressed, form, publication_year,
           search_query, addMsg, books, removeMsg, results, searchMsg,
           total_books, read_books, read_percentage, library_json, removed >>

Button(kind, id) == [kind |-> kind, id |-> id]

DefaultForm ==
    [title |-> <<>>, author |-> <<>>, typed |-> TodayYear,
     genre |-> "Fiction", status |-> "Not Read"]

\* Before the first run of the script: no table, nothing on the page.
Init ==
    /\ tableExists = FALSE
    /\ table = <<>>
    /\ books_id_seq = 1
    /\ pressed = Button("init", 0)
    /\ form = DefaultForm
    /\ publication_year = TodayYear
    /\ search_query = <<>>
    /\ addMsg = "none"
    /\ books = <<>>
    /\ removeMsg = "none"
    /\ results = <<>>
    /\ searchMsg = "none"
    /\ total_books = 0
    /\ read_books = 0
    /\ read_percentage = 0
    /\ library_json = NoDoc
    /\ removed = {}

\* Add Book tab: message shown.
AddMessage(btn, f) ==
    IF btn.kind # "add" THEN "none"
    ELSE IF TitleAndAuthor(f.title, f.author) THEN "success" ELSE "error"

\* View Library tab: the Remove button of a fetched row was the pressed one.
RemoveHit(btn, listing) == btn.kind = "remove" /\ btn.id \in Ids(listing)

RemoveMessageAlways(btn, listing) ==
    IF btn.kind = "remove" THEN "success" ELSE "none"

RemoveMessage(btn, listing) ==
    IF RemoveHit(btn, listing) THEN "success" ELSE "none"

\* Search tab: message shown.
SearchMessage(btn, q, found) ==
    IF btn.kind # "search" THEN "none"
    ELSE IF q = <<>> THEN "error"
    ELSE IF found # <<>> THEN "results" ELSE "warning"

\* Export section: offered only when total_books > 0.
Export(total, heap) ==
    IF total > 0 THEN Offer(json_dumps(SelectAll(heap))) ELSE NoDoc

\* One run of the script with button btn pressed, form f, year widget value
\* y and search box q.
Script(btn, f, y, q) ==
    LET db0   == CreateTableIfNotExists(
                     [exists |-> tableExists, heap |-> table, seq |-> books_id_seq])
        doAdd == btn.kind = "add" /\ TitleAndAuthor(f.title, f.author)
        newId == SerialNextVal(db0.heap, db0.seq)
        row   == Row(newId, f.title, f.author, y, f.genre, f.status)
    IN  /\ doAdd => newId <= MaxId
        /\ \E heap1 \in (IF doAdd THEN Insert(db0.heap, row) ELSE { db0.heap }) :
             LET listing == SelectAll(heap1)
                 doDel   == RemoveHit(btn, listing)
                 heap2   == IF doDel THEN Delete(heap1, btn.id) ELSE heap1
                 found   == IF btn.kind = "search" /\ q # <<>>
                            THEN SelectILike(heap2, q) ELSE <<>>
                 total   == CountAll(heap2)
                 read    == CountFinished(heap2)
             IN  /\ tableExists' = db0.exists
                 /\ table' = heap2
                 /\ books_id_seq' = IF doAdd THEN db0.seq + 1 ELSE db0.seq
                 /\ pressed' = btn
                 /\ form' = f
                 /\ publication_year' = y
                 /\ search_query' = q
                 /\ addMsg' = AddMessage(btn, f)
                 /\ books' = listing
                 /\ removeMsg' = RemoveMessage(btn, listing)
                 /\ results' = found
                 /\ searchMsg' = SearchMessage(btn, q, found)
                 /\ total_books' = total
                 /\ read_books' = read
                 /\ read_percentage' = Percentage(read, total)
                 /\ library_json' = Export(total, heap2)
                 /\ removed' = removed \cup (Ids(heap1) \ Ids(heap2))

\* A rerun with no button pressed (first load, or a widget was edited).
Rerun ==
    Script(Button("none", 0), form, publication_year, search_query)

\* The user fills the form and presses "Add Book".
AddBook ==
    \E f \in FormInputs : \E y \in number_input(f.typed) :
        Script(Button("add", 0), f, y, search_query)

\* The user presses a "Remove" button shown on the page.
RemoveBook ==
    \E id \in Ids(books) :
        Script(Button("remove", id), form, publication_year, search_query)

\* The user fills the search box and presses "Search".
Search ==
    \E q \in Queries :
        Script(Button("search", 0), form, publication_year, q)

Next == Rerun \/ AddBook \/ RemoveBook \/ Search

Spec == Init /\ [][Next]_vars

\* ------------------------------------------------------------ properties
InRange(y) == y >= min_value /\ y <= max_value

\* A text that is empty once leading and trailing whitespace is trimmed.
IsBlank(s) == \A i \in 1..Len(s) : s[i] = " "

\* q occurs in t as a literal substring, letter case ignored.
Contains(t, q) ==
    \E i \in 1..(Len(t) - Len(q) + 1) :
        \A k \in 1..Len(q) : Lower(t[i + k - 1]) = Lower(q[k])

\* The (title, author, year, genre, status) tuples of a list of rows, with
\* genre and status as the one-unit texts the export writes.
Tuples(rows) ==
    [i \in 1..Len(rows) |->
        << rows[i].title, rows[i].author, rows[i].year,
           <<rows[i].genre>>, <<rows[i].status>> >>]

\* The same tuples read from a parsed export (columns 2..6 of every list).
ParsedTuples(lists) ==
    [i \in 1..Len(lists) |-> SubSeq(lists[i], 2, 6)]

ParsedIds(lists) == { lists[i][1] : i \in 1..Len(lists) }

\* s without its i-th element.
Without(s, i) == SubSeq(s, 1, i - 1) \o SubSeq(s, i + 1, Len(s))

Ran == pressed.kind # "init"

\* C1: an add with non-empty title and author makes the listing of that run
\* the previous list_all plus exactly one record, which carries the supplied
\* title, author, year, genre and status and an id no stored record had.
C1_AddAddsOneFreshRecord ==
    [][ (pressed'.kind = "add" /\ form'.title # <<>> /\ form'.author # <<>>)
        => \E i \in 1..Len(books') :
              /\ books'[i].title = form'.title
              /\ books'[i].author = form'.author
              /\ books'[i].year = publication_year'
              /\ books'[i].genre = form'.genre
              /\ books'[i].status = form'.status
              /\ books'[i].id \notin Ids(table)
              /\ Without(books', i) = SelectAll(table)
              /\ SelectAll(table') = books' ]_vars

C1_Witness ==
    /\ pressed.kind = "add"
    /\ addMsg = "success"
    /\ Len(books) >= 2

\* C2: an add whose title or author is empty after trimming is rejected
\* with an error and leaves list_all as it was.
C2_BlankAddRejected ==
    [][ (pressed'.kind = "add" /\ (IsBlank(form'.title) \/ IsBlank(form'.author)))
        => (addMsg' = "error" /\ SelectAll(table') = SelectAll(table)) ]_vars

C4_RemovedNeverReturns ==
    /\ removed \cap Ids(table) = {}
    /\ removed \cap Ids(results) = {}
    /\ removed \cap Ids(books) \subseteq
          (IF removeMsg = "success" THEN { pressed.id } ELSE {})
    /\ removed \cap ParsedIds(json_loads(library_json.doc)) = {}

C4_Witness ==
    /\ removed # {}
    /\ pressed.kind = "add"
    /\ addMsg = "success"
    /\ Ids(books) # {}

\* C5: a search with a non-empty query returns exactly the stored records
\* whose title or author contains the query as a literal substring, letter
\* case ignored.
C5_SearchIsLiteralSubstring ==
    (pressed.kind = "search" /\ search_query # <<>>)
    => LET Hit(r) == Contains(r.title, search_query) \/ Contains(r.author, search_query)
       IN  results = SelectSeq(SelectAll(table), Hit)

\* C6: in every run the statistics agree with the View Library listing of
\* that run: total is the number of listed records, finished the number of
\* listed records with status Finished.
C6_StatsMatchListing ==
    Ran => /\ total_books = Len(books)
           /\ read_books = Len(SelectSeq(books, IsFinished))

\* C7 (as stated): after any adds and removes, also with the store empty,
\* the export is a document that parses back to the tuples of list_all in
\* list_all order.
C7_ExportAlwaysRoundTrips ==
    Ran => /\ library_json.offered
           /\ ParsedTuples(json_loads(library_json.doc)) = Tuples(SelectAll(table))

\* C7 (amended): with at least one stored record the export is a document
\* that parses back to the tuples of list_all in list_all order; with the
\* store empty no document is offered.
C7_ExportRoundTripsWhenNonEmpty ==
    Ran => IF SelectAll(table) # <<>>
           THEN /\ library_json.offered
                /\ ParsedTuples(json_loads(library_json.doc)) = Tuples(SelectAll(table))
           ELSE ~library_json.offered

C7_Witness ==
    /\ library_json.offered
    /\ removed # {}
    /\ \E i \in 1..Len(table) : table[i].id # 0 /\ Contains(table[i].title, <<"\\">>)

YearsInRange == \A i \in 1..Len(table) : table[i].id # 0 => InRange(table[i].year)

C9_InitKeepsRecords ==
    [][ tableExists =>
          /\ tableExists'
          /\ \A i \in 1..Len(table) :
                (table[i].id # 0 /\ ~(pressed'.kind = "remove" /\ pressed'.id = table[i].id))
                => \E j \in 1..Len(table') : table'[j] = table[i]
          /\ \A j \in 1..Len(table') :
                table'[j].id # 0
                => \/ \E i \in 1..Len(table) : table[i] = table'[j]
                   \/ (addMsg' = "success" /\ table'[j].id = books_id_seq)
          /\ Cardinality(Ids(table')) = Len(SelectAll(table'))
          /\ books_id_seq' >= books_id_seq ]_vars

C9_Witness ==
    /\ tableExists
    /\ pressed.kind = "none"
    /\ Len(SelectAll(table)) >= 2

\* C10: a successful remove deletes exactly the record with the id of the
\* pressed button: list_all afterwards is list_all before without that one
\* record, one shorter, also when another record has the same title, author
\* and year.
C10_RemoveDeletesExactlyOne ==
    [][ removeMsg' = "success"
        => LET Keep(r) == r.id # pressed'.id
           IN  /\ pressed'.id \in Ids(table)
               /\ SelectAll(table') = SelectSeq(SelectAll(table), Keep)
               /\ Len(SelectAll(table')) = Len(SelectAll(table)) - 1 ]_vars

C10_Witness ==
    /\ removeMsg = "success"
    /\ \E i \in 1..Len(books) : \E j \in 1..Len(table) :
          /\ books[i].id = pressed.id
          /\ table[j].id # 0
          /\ table[j].title = books[i].title
          /\ table[j].author = books[i].author
          /\ table[j].year = books[i].year

====
